---- MODULE Spec2Model ----
(***************************************************************************)
(* Model of src/waste_opt.py: the per-truck pipeline of optimize_routes    *)
(* (stop filter, get_distance_matrix, create_routing_model, the solve, the *)
(* route extraction and the summary box).                                  *)
(*                                                                         *)
(* Representation.                                                         *)
(*  - A locations dict is the sequence of its keys in insertion order; the *)
(*    coordinate pair stored under a key is abstracted to a token named    *)
(*    after the key (the tables on lines 9-39 give distinct stops distinct *)
(*    coordinates), so location_coords is a sequence of such tokens.       *)
(*  - A fill_levels dict is a function whose DOMAIN is its key set.        *)
(*  - Matrix cells are kilometres held in fixed point, KmUnit units per    *)
(*    kilometre, so that metres / 1000 is exact; +infinity is the value    *)
(*    Inf.  Indices are 0-based as in the code.                            *)
(*  - Money is held in cents, fuel consumption in tenths of a litre.       *)
(***************************************************************************)
EXTENDS Integers, Sequences, FiniteSets, TLC

VARIABLES
    trucks,           \* the fleet table (lines 51-54), read only
    threshold,        \* FILL_THRESHOLD as seen by the filter
    idx,              \* 1-based position of the for loop of line 99
    pc,               \* position inside optimize_routes
    filtered_bins,    \* line 106
    location_coords,  \* line 107
    distance_matrix,  \* get_distance_matrix's local, then line 109
    cell,             \* <<i, j>> of the nested loops of lines 65-66
    responses,        \* what the provider answered for each pair looked up
    solution,         \* line 117: NotSolved, None or an assignment
    route,            \* lines 121-127
    summary_boxes,    \* line 132: one record per appended box
    polylines,        \* line 130: the routes drawn on route_map
    outcome,          \* history: per truck "pending", "skipped" or "solved"
    error             \* the exception that ended the run, "" if none

vars == <<trucks, threshold, idx, pc, filtered_bins, location_coords,
          distance_matrix, cell, responses, solution, route, summary_boxes,
          polylines, outcome, error>>

----------------------------------------------------------------------------
(* Program constants *)

FILL_THRESHOLD == 40

\* cents per litre (1.52 CAD)
fuel_price_per_liter == 152

\* tenths of a litre per kilometre (0.3 L/km)
fuel_consumption_per_km == 3

\* fixed-point units per kilometre: the "/ 1000" of line 74
KmUnit == 1000

\* kilometres per index step of the fallback estimate of line 78
FallbackKmPerStep == 5

\* the trucks table has two entries
NumTrucks == 2

----------------------------------------------------------------------------
(* Bounds of the model *)

\* longest locations table the filter is tried on
MaxLocations == 4

\* longest coordinate list get_distance_matrix is tried on
MaxCoords == 3

StopNames == {"A", "B", "C"}

\* the depot keys: the literal of line 106 and the key style of lines 10, 32
DepotNames == {"Depot", "Depot (Markham)"}

Names == DepotNames \cup StopNames

FillValues == {30, 40, 45, 60}

Thresholds == {0, FILL_THRESHOLD, 60}

----------------------------------------------------------------------------
(* Helpers *)

Range(s) == {s[k] : k \in 1..Len(s)}

Abs(x) == IF x < 0 THEN -x ELSE x

\* sequences without repetition over S, of length at most n (dict keys)
DistinctSeqs(S, n) ==
    {s \in UNION {[1..k -> S] : k \in 0..n} :
        \A a, b \in 1..Len(s) : a # b => s[a] # s[b]}

\* the coordinate pair stored under a key
Coord(name) == [of |-> name]

\* dict.get(name, 0)
Get(fill_levels, name) ==
    IF name \in DOMAIN fill_levels THEN fill_levels[name] ELSE 0

EmptyMap == [x \in {} |-> 0]

\* the value of the variable solution: not assigned yet, None, or an
\* assignment whose Value(NextVar(index)) is value[index]
NotSolved == [kind |-> "NotSolved", value |-> EmptyMap]

None == [kind |-> "None", value |-> EmptyMap]

Found(value) == [kind |-> "found", value |-> value]

\* float('inf'): a cell value above every finite one
Inf == 999999999

----------------------------------------------------------------------------
(* Stop filter, line 106 *)

FilterBinsAbove(locations, fill_levels, T) ==
    SelectSeq(locations,
              LAMBDA name : name = "Depot" \/ Get(fill_levels, name) > T)

FilterBins(locations, fill_levels, T) ==
    SelectSeq(locations,
              LAMBDA name : name = "Depot" \/ Get(fill_levels, name) >= T)

\* lines 100-107
FilterStep ==
    /\ pc = "filter"
    /\ filtered_bins' = FilterBins(trucks[idx].locations,
                                   trucks[idx].fill_levels, threshold)
    /\ location_coords' = [k \in 1..Len(filtered_bins') |->
                              Coord(filtered_bins'[k])]
    /\ pc' = "matrix"
    /\ UNCHANGED <<trucks, threshold, idx, distance_matrix, cell, responses,
                   solution, route, summary_boxes, polylines, outcome, error>>

----------------------------------------------------------------------------
(* get_distance_matrix, lines 61-79 *)

Cells(n) == (0..(n - 1)) \X (0..(n - 1))

OffDiagonal(n) == {p \in Cells(n) : p[1] # p[2]}

\* one step of "for i in range(n): for j in range(n)"
LoopStep(i, j, n) == IF j + 1 < n THEN <<i, j + 1>> ELSE <<i + 1, 0>>

\* the next pair that passes "if i != j"; <<i, _>> with i >= n when none is left
NextLookup(i, j, n) ==
    LET p == LoopStep(i, j, n)
    IN  IF p[1] < n /\ p[1] = p[2] THEN LoopStep(p[1], p[2], n) ELSE p

\* the provider's answers: a route, an answer without routes, an exception
ResponseKinds == {"ok", "noroute", "error"}

\* response["routes"][0]["distance"], in metres: the road network gives each
\* ordered pair its own length, not symmetric
RoadMetres(i, j) == 1300 + 700 * i + 150 * j

CellValueUnreachableZero(kind, i, j) ==
    CASE kind = "ok"      -> (RoadMetres(i, j) * KmUnit) \div 1000
      [] kind = "noroute" -> 0
      [] kind = "error"   -> Abs(i - j) * FallbackKmPerStep * KmUnit

CellValueFlatFallback(kind, i, j) ==
    CASE kind = "ok"      -> (RoadMetres(i, j) * KmUnit) \div 1000
      [] kind = "noroute" -> Inf
      [] kind = "error"   -> FallbackKmPerStep * KmUnit

\* lines 71-78: what is stored in distance_matrix[i][j]
CellValue(kind, i, j) ==
    CASE kind = "ok"      -> (RoadMetres(i, j) * KmUnit) \div 1000
      [] kind = "noroute" -> Inf
      [] kind = "error"   -> Abs(i - j) * FallbackKmPerStep * KmUnit

\* lines 62-63, and the loops' first pair
BeginMatrix ==
    /\ pc = "matrix"
    /\ distance_matrix' = [p \in Cells(Len(location_coords)) |-> 0]
    /\ cell' = NextLookup(0, -1, Len(location_coords))
    /\ responses' = EmptyMap
    /\ pc' = "lookup"
    /\ UNCHANGED <<trucks, threshold, idx, filtered_bins, location_coords,
                   solution, route, summary_boxes, polylines, outcome, error>>

\* lines 67-78 for one pair i != j
LookupStep ==
    /\ pc = "lookup"
    /\ cell[1] < Len(location_coords)
    /\ \E kind \in ResponseKinds :
          /\ responses' = [p \in DOMAIN responses \cup {cell} |->
                              IF p = cell THEN kind ELSE responses[p]]
          /\ distance_matrix' =
                [distance_matrix EXCEPT ![cell] = CellValue(kind, cell[1], cell[2])]
    /\ cell' = NextLookup(cell[1], cell[2], Len(location_coords))
    /\ UNCHANGED <<trucks, threshold, idx, pc, filtered_bins, location_coords,
                   solution, route, summary_boxes, polylines, outcome, error>>

\* line 79
ReturnMatrix ==
    /\ pc = "lookup"
    /\ cell[1] >= Len(location_coords)
    /\ pc' = "model"
    /\ UNCHANGED <<trucks, threshold, idx, filtered_bins, location_coords,
                   distance_matrix, cell, responses, solution, route,
                   summary_boxes, polylines, outcome, error>>

----------------------------------------------------------------------------
(* create_routing_model, lines 81-93, and the solve of lines 112-119.      *)
(* RoutingIndexManager and RoutingModel are OR-Tools: with n nodes, one    *)
(* vehicle and depot 0 the indices 0..n-1 stand for the nodes, Start(0) is *)
(* index 0 and End(0) is index n, which IndexToNode maps back to node 0.   *)

\* routing.End(0); a manager built over no node still has a start and an end
End(n) == IF n = 0 THEN 1 ELSE n

IsEnd(index, n) == index = End(n)

IndexToNode(index, n) == IF index = End(n) THEN 0 ELSE index

VisitOrders(S) ==
    {s \in [1..Cardinality(S) -> S] : Range(s) = S}

\* the assignment that visits the nodes 1..n-1 in the given order
Assignment(order, n) ==
    [index \in 0..(End(n) - 1) |->
        IF n = 0 THEN End(n)
        ELSE LET tour == <<0>> \o order
                 k == CHOOSE k \in 1..Len(tour) : tour[k] = index
             IN  IF k = Len(tour) THEN End(n) ELSE tour[k + 1]]

\* every assignment the solver may return: no node is optional (no
\* disjunction is added), so each is a closed tour over all the nodes
Assignments(n) == {Assignment(order, n) : order \in VisitOrders(1..(n - 1))}

\* distance_callback, lines 86-89: the exception it raises on an arc, "" if none
CallbackError(matrix, from_node, to_node) ==
    IF <<from_node, to_node>> \notin DOMAIN matrix THEN "IndexError"
    ELSE IF matrix[<<from_node, to_node>>] = Inf THEN "OverflowError"
    ELSE ""

\* distance_callback's return value on an arc it does not raise on:
\* int(km * 1000), exact here because cells are held in fixed point (the
\* float product may fall one unit short; no property below reads that unit)
CallbackCost(matrix, from_node, to_node) ==
    (matrix[<<from_node, to_node>>] * 1000) \div KmUnit

\* the arcs the search evaluates: every arc between two different nodes, and
\* with no node at all the arc from the start to the end
Arcs(n) == IF n = 0 THEN {<<0, 0>>} ELSE OffDiagonal(n)

CallbackErrors(matrix, n) ==
    {CallbackError(matrix, a[1], a[2]) : a \in Arcs(n)} \ {""}

\* lines 82-84, 91-93 and line 110.  A manager over zero nodes with depot 0 is
\* outside what OR-Tools defines: the constructor fails, or hands back a
\* manager without nodes.
CreateRoutingModel ==
    /\ pc = "model"
    /\ \E built \in IF Len(location_coords) = 0 THEN BOOLEAN ELSE {TRUE} :
          IF built
          THEN /\ pc' = "solve"
               /\ error' = error
          ELSE /\ pc' = "crashed"
               /\ error' = "RoutingIndexManager"
    /\ UNCHANGED <<trucks, threshold, idx, filtered_bins, location_coords,
                   distance_matrix, cell, responses, solution, route,
                   summary_boxes, polylines, outcome>>

SkipToSave == "save"

\* line 119: where "continue" leads
SkipTo == "next"

\* lines 112-119.  The search returns None or an assignment.  An exception
\* raised inside distance_callback either comes out of SolveWithParameters
\* or is dropped by the wrapper, which then takes the arc's cost as 0.
SolveWithParameters ==
    /\ pc = "solve"
    /\ LET n == Len(location_coords)
           raised == CallbackErrors(distance_matrix, n)
       IN  \E result \in {None} \cup {Found(a) : a \in Assignments(n)}
                         \cup {[kind |-> e, value |-> EmptyMap] : e \in raised} :
              IF result.kind \in raised
              THEN /\ pc' = "crashed"
                   /\ error' = result.kind
                   /\ UNCHANGED <<solution, outcome>>
              ELSE /\ solution' = result
                   /\ error' = error
                   /\ IF result = None
                      THEN /\ pc' = SkipTo
                           /\ outcome' = [outcome EXCEPT ![idx] = "skipped"]
                      ELSE /\ pc' = "extract"
                           /\ outcome' = [outcome EXCEPT ![idx] = "solved"]
    /\ UNCHANGED <<trucks, threshold, idx, filtered_bins, location_coords,
                   distance_matrix, cell, responses, route, summary_boxes,
                   polylines>>

----------------------------------------------------------------------------
(* Route extraction, lines 121-130 *)

RECURSIVE Walk(_, _, _, _)
\* the while loop of lines 123-127
Walk(value, index, coords, acc) ==
    IF IsEnd(index, Len(coords)) THEN acc
    ELSE LET node_index == IndexToNode(index, Len(coords))
         IN  Walk(value, value[index], coords,
                  IF node_index < Len(coords)
                  THEN Append(acc, coords[node_index + 1])
                  ELSE acc)

ExtractRoute ==
    /\ pc = "extract"
    /\ route' = Walk(solution.value, 0, location_coords, <<>>)
    /\ polylines' = IF route' # <<>>
                    THEN Append(polylines, [truck |-> idx, route |-> route'])
                    ELSE polylines
    /\ pc' = "summary"
    /\ UNCHANGED <<trucks, threshold, idx, filtered_bins, location_coords,
                   distance_matrix, cell, responses, solution, summary_boxes,
                   outcome, error>>

----------------------------------------------------------------------------
(* Summary box, lines 132-144: distances in km, money in cents, labour in  *)
(* hundredths of an hour                                                   *)

SummaryBox(truck) ==
    [truck |-> truck,
     initial_distance |-> 50, optimized_distance |-> 35, distance_saved |-> 15,
     fuel_cost_before |-> 2280, fuel_cost_after |-> 1596, savings |-> 684,
     labor_hours_saved |-> 75]

AppendSummary ==
    /\ pc = "summary"
    /\ summary_boxes' = Append(summary_boxes, SummaryBox(idx))
    /\ pc' = "next"
    /\ UNCHANGED <<trucks, threshold, idx, filtered_bins, location_coords,
                   distance_matrix, cell, responses, solution, route,
                   polylines, outcome, error>>

----------------------------------------------------------------------------
(* The for loop of line 99 and lines 146-148 *)

NextTruck ==
    /\ pc = "next"
    /\ idx < Len(trucks)
    /\ idx' = idx + 1
    /\ pc' = "filter"
    /\ UNCHANGED <<trucks, threshold, filtered_bins, location_coords,
                   distance_matrix, cell, responses, solution, route,
                   summary_boxes, polylines, outcome, error>>

EndLoop ==
    /\ pc = "next"
    /\ idx >= Len(trucks)
    /\ pc' = "save"
    /\ UNCHANGED <<trucks, threshold, idx, filtered_bins, location_coords,
                   distance_matrix, cell, responses, solution, route,
                   summary_boxes, polylines, outcome, error>>

SaveMap ==
    /\ pc = "save"
    /\ pc' = "done"
    /\ UNCHANGED <<trucks, threshold, idx, filtered_bins, location_coords,
                   distance_matrix, cell, responses, solution, route,
                   summary_boxes, polylines, outcome, error>>

----------------------------------------------------------------------------
(* Inputs *)

FillMaps == UNION {[D -> FillValues] : D \in SUBSET StopNames}

Truck(locations, fill_levels) ==
    [locations |-> locations, fill_levels |-> fill_levels]

\* the fleets the whole run is tried on: the key styles of lines 10 and 106,
\* a table without depot and an empty table
VehicleCatalog ==
    { Truck(<<"Depot", "A", "B">>, [x \in {"A", "B"} |-> IF x = "A" THEN 45 ELSE 30]),
      Truck(<<"Depot", "A", "C">>, [x \in {"A", "C"} |-> IF x = "A" THEN 45 ELSE 60]),
      Truck(<<"Depot", "B">>, [x \in {"B"} |-> 30]),
      Truck(<<"Depot (Markham)", "A", "B", "C">>,
            [x \in {"A", "B", "C"} |-> IF x = "A" THEN 45 ELSE IF x = "B" THEN 30 ELSE 60]),
      Truck(<<"Depot (Markham)", "B">>, [x \in {"B"} |-> 30]),
      Truck(<<"A">>, [x \in {"A"} |-> 45]),
      Truck(<<>>, EmptyMap) }

\* the coordinate lists get_distance_matrix is tried on
AllCoords == <<Coord("Depot"), Coord("A"), Coord("B"), Coord("C"), Coord("Depot (Markham)")>>

CoordLists == {SubSeq(AllCoords, 1, n) : n \in 0..MaxCoords}

\* the state before the first statement of the loop body
Fresh ==
    /\ idx = 1
    /\ filtered_bins = <<>>
    /\ distance_matrix = EmptyMap
    /\ cell = <<0, 0>>
    /\ responses = EmptyMap
    /\ solution = NotSolved
    /\ route = <<>>
    /\ summary_boxes = <<>>
    /\ polylines = <<>>
    /\ outcome = [k \in 1..Len(trucks) |-> "pending"]
    /\ error = ""

\* optimize_routes on a fleet of the catalogue
Init ==
    /\ trucks \in [1..NumTrucks -> VehicleCatalog]
    /\ threshold = FILL_THRESHOLD
    /\ pc = "filter"
    /\ location_coords = <<>>
    /\ Fresh

Next ==
    \/ FilterStep
    \/ BeginMatrix
    \/ LookupStep
    \/ ReturnMatrix
    \/ CreateRoutingModel
    \/ SolveWithParameters
    \/ ExtractRoute
    \/ AppendSummary
    \/ NextTruck
    \/ EndLoop
    \/ SaveMap

Spec == Init /\ [][Next]_vars

\* the stop filter alone, on every table, mapping and threshold of the bounds
InitFilter ==
    /\ trucks \in {<<Truck(l, f)>> : l \in DistinctSeqs(Names, MaxLocations),
                                     f \in FillMaps}
    /\ threshold \in Thresholds
    /\ pc = "filter"
    /\ location_coords = <<>>
    /\ Fresh

NextFilter == FilterStep

SpecFilter == InitFilter /\ [][NextFilter]_vars

\* get_distance_matrix alone, on every coordinate list of the bounds
InitMatrix ==
    /\ trucks = <<>>
    /\ threshold = FILL_THRESHOLD
    /\ pc = "matrix"
    /\ location_coords \in CoordLists
    /\ Fresh

NextMatrix ==
    \/ BeginMatrix
    \/ LookupStep
    \/ ReturnMatrix

SpecMatrix == InitMatrix /\ [][NextMatrix]_vars

----------------------------------------------------------------------------
(* Vocabulary of the properties *)

\* the depot of a table is the stop under a depot key
IsDepot(name) == name \in DepotNames

ExactlyOneDepot(locations) ==
    Cardinality({k \in 1..Len(locations) : IsDepot(locations[k])}) = 1

\* no stop other than the depot reaches the threshold
NoStopMeets(truck, T) ==
    \A name \in Range(truck.locations) :
        ~IsDepot(name) => Get(truck.fill_levels, name) < T

\* a table without locations or without depot
Malformed(truck) ==
    \/ truck.locations = <<>>
    \/ \A name \in Range(truck.locations) : ~IsDepot(name)

\* get_distance_matrix has returned some truck's matrix, one with a cell
MatrixBuilt ==
    \/ idx > 1
    \/ /\ pc \in {"model", "solve", "extract", "summary", "next", "save",
                  "done", "crashed"}
       /\ location_coords # <<>>

\* SolveWithParameters has been called for some truck
SolveStarted ==
    \/ idx > 1
    \/ pc \in {"extract", "summary", "next", "save", "done"}
    \/ pc = "crashed" /\ error # "RoutingIndexManager"

\* the solve of the current distance_matrix has ended
SolveEnded ==
    \/ pc \in {"extract", "summary", "next", "save", "done"}
    \/ pc = "crashed" /\ error # "RoutingIndexManager"

\* the assignment uses an arc whose cell is +infinity
UsesInf(value, n, matrix) ==
    \E index \in DOMAIN value :
        matrix[<<IndexToNode(index, n), IndexToNode(value[index], n)>>] = Inf

\* every closed tour over the nodes uses an arc whose cell is +infinity
UnavoidableInf ==
    LET n == Len(location_coords)
    IN  /\ n >= 2
        /\ \A value \in Assignments(n) : UsesInf(value, n, distance_matrix)

RECURSIVE TourCost(_, _, _, _)
\* the length of the closed tour of an assignment, in the callback's units
TourCost(value, index, n, matrix) ==
    IF IsEnd(index, n) THEN 0
    ELSE CallbackCost(matrix, IndexToNode(index, n), IndexToNode(value[index], n))
         + TourCost(value, value[index], n, matrix)

\* the solved route's real distance, in metres
TourMetres == TourCost(solution.value, 0, Len(location_coords), distance_matrix)

Distance(p) == Abs(p[1] - p[2])

----------------------------------------------------------------------------
(* Properties *)

\* C1: for every table with exactly one depot, every fill-level mapping and
\* every threshold, the filtered set contains the depot.
C1_DepotAlwaysKept ==
    (pc = "matrix" /\ ExactlyOneDepot(trucks[idx].locations))
        => \E k \in 1..Len(filtered_bins) : IsDepot(filtered_bins[k])

\* C2: for every table, fill-level mapping and threshold T, a stop other than
\* the depot is in the filtered set exactly when its fill level, 0 when the
\* mapping has no entry for it, is at least T; with T = 40 and A:45, B:30,
\* C:60 the stops kept are A and C.
C2_StopKeptIffFull ==
    pc = "matrix" =>
        /\ \A name \in Range(trucks[idx].locations) :
              ~IsDepot(name) =>
                  (name \in Range(filtered_bins)
                      <=> Get(trucks[idx].fill_levels, name) >= threshold)
        /\ Range(filtered_bins) \subseteq Range(trucks[idx].locations)

C2_Witness ==
    /\ pc = "matrix"
    /\ threshold = 40
    /\ trucks[idx].locations = <<"Depot", "A", "B", "C">>
    /\ DOMAIN trucks[idx].fill_levels = {"A", "B", "C"}
    /\ trucks[idx].fill_levels["A"] = 45
    /\ trucks[idx].fill_levels["B"] = 30
    /\ trucks[idx].fill_levels["C"] = 60
    /\ filtered_bins = <<"Depot", "A", "C">>

\* C3: whenever the solver returns a solution, the extracted route starts at
\* the depot index, ends at the depot index and holds every other node index
\* exactly once.
C3_RouteClosedTour ==
    (pc = "summary" /\ location_coords # <<>>) =>
        /\ route # <<>>
        /\ route[1] = location_coords[1]
        /\ route[Len(route)] = location_coords[1]
        /\ \A k \in 2..Len(location_coords) :
              Cardinality({m \in 1..Len(route) : route[m] = location_coords[k]}) = 1

\* C4: when no closed tour avoids an infinite-cost arc, the solve ends with no
\* solution: it does not raise and it returns no tour.
C4_InfeasibleOnUnreachable ==
    (SolveEnded /\ UnavoidableInf) => (pc # "crashed" /\ solution = None)

\* C5: the returned matrix has a zero diagonal and no negative entry, and the
\* cell of every pair the provider had no route for is +infinity, never 0.
C5_MatrixShape ==
    pc = "model" =>
        \A p \in Cells(Len(location_coords)) :
            /\ p[1] = p[2] => distance_matrix[p] = 0
            /\ distance_matrix[p] >= 0
            /\ (p \in DOMAIN responses /\ responses[p] = "noroute")
                  => (distance_matrix[p] = Inf /\ distance_matrix[p] # 0)

C5_Witness ==
    /\ pc = "model"
    /\ Len(location_coords) = MaxCoords
    /\ \E p, q, r \in DOMAIN responses :
          /\ responses[p] = "noroute"
          /\ responses[q] = "error"
          /\ responses[r] = "ok"

\* C6: a lookup that raises replaces its own cell only, by an estimate that is
\* a strictly increasing function of |i-j|; the build goes on, every other pair
\* is looked up, and a pair whose lookup succeeded keeps the provider's metres
\* divided by 1000.
C6_FallbackPerCell ==
    pc \in {"lookup", "model"} =>
        /\ pc = "model" => DOMAIN responses = OffDiagonal(Len(location_coords))
        /\ \A p \in DOMAIN responses :
              /\ responses[p] = "ok"
                    => distance_matrix[p] * 1000 = RoadMetres(p[1], p[2]) * KmUnit
              /\ responses[p] = "error" =>
                    /\ distance_matrix[p] # Inf
                    /\ \A q \in DOMAIN responses :
                          responses[q] = "error" =>
                              /\ Distance(p) = Distance(q)
                                    => distance_matrix[p] = distance_matrix[q]
                              /\ Distance(p) < Distance(q)
                                    => distance_matrix[p] < distance_matrix[q]
        /\ \A p \in Cells(Len(location_coords)) \ DOMAIN responses :
              distance_matrix[p] = 0

C6_Witness ==
    /\ pc = "model"
    /\ DOMAIN responses = OffDiagonal(3)
    /\ responses[<<0, 1>>] = "error"
    /\ responses[<<0, 2>>] = "error"
    /\ responses[<<1, 0>>] = "ok"
    /\ responses[<<2, 0>>] = "noroute"
    /\ distance_matrix[<<0, 1>>] < distance_matrix[<<0, 2>>]
    /\ distance_matrix[<<1, 0>>] * 1000 = RoadMetres(1, 0) * KmUnit

\* C7: a truck whose solve returns no solution does not end the run: the run
\* is never aborted at that truck, the loop goes on to the truck after it, and
\* a run that reaches its end has solved every truck and holds a summary for
\* every truck that has a solution.
C7_InfeasibleDoesNotAbort ==
    /\ \A k \in DOMAIN outcome :
          outcome[k] = "skipped" =>
              /\ ~(pc = "crashed" /\ idx = k)
              /\ k < Len(trucks) => (idx > k \/ (idx = k /\ pc = "next"))
    /\ pc = "done" =>
          \A k \in DOMAIN outcome :
              /\ outcome[k] # "pending"
              /\ outcome[k] = "solved" =>
                    \E b \in 1..Len(summary_boxes) : summary_boxes[b].truck = k

C7_Witness ==
    /\ pc = "done"
    /\ outcome = <<"skipped", "solved">>
    /\ Len(summary_boxes) = 1
    /\ summary_boxes[1].truck = 2
    /\ Len(route) = 3
    /\ polylines = <<[truck |-> 2, route |-> route]>>

\* C8: the summary of a solved truck reports the solved route's distance, and
\* its fuel cost after is that distance x consumption per km x price per litre.
C8_SummaryFromRoute ==
    (pc = "next" /\ outcome[idx] = "solved" /\ location_coords # <<>>
                 /\ CallbackErrors(distance_matrix, Len(location_coords)) = {}) =>
        LET box == summary_boxes[Len(summary_boxes)]
        IN  /\ box.truck = idx
            /\ box.optimized_distance * 1000 = TourMetres
            /\ box.fuel_cost_after * 10 * 1000
                  = TourMetres * fuel_consumption_per_km * fuel_price_per_liter

\* C9: when a truck's table is malformed (no depot, or no location), the run
\* stops with a configuration error before any matrix is built or any solve
\* is started.
C9_ConfigurationErrorFirst ==
    (\E k \in DOMAIN trucks : Malformed(trucks[k]))
        => (~MatrixBuilt /\ ~SolveStarted)

\* C10: when no stop other than the depot meets the threshold, the filtered
\* set is the depot alone, and the truck's pipeline completes with the route
\* that stays at the depot, of distance 0.
C10_DepotOnlyRoute ==
    (ExactlyOneDepot(trucks[idx].locations) /\ NoStopMeets(trucks[idx], threshold)) =>
        /\ pc # "filter" =>
              /\ Len(filtered_bins) = 1
              /\ IsDepot(filtered_bins[1])
        /\ pc # "crashed"
        /\ pc \in {"next", "save", "done"} =>
              /\ outcome[idx] = "solved"
              /\ route = <<location_coords[1]>>
              /\ TourMetres = 0

====
